---------------------------- MODULE Spec2Model ----------------------------
(***************************************************************************)
(* Roadmap generation pipeline of engineer-career-agent:                   *)
(*   orchestrator_agent -> research_agent -> roadmap_agent (graph.py),     *)
(* the concurrent per-tag research fan-out (research_agent.py) and the     *)
(* streaming synthesizer roadmap_agent_stream (roadmap_agent.py).          *)
(*                                                                         *)
(* Text is modelled as a sequence of lexical tokens:                       *)
(*   "{" "}"  braces            "a"  an object member (key and scalar)     *)
(*   "t"      the member whose key the caller looks up ("tags")            *)
(*   "F"      a triple-backtick fence      "j"  the word json (prose)      *)
(*   "W"      whitespace                                                   *)
(* Inside an object a nested "{" stands for a member with an object value. *)
(***************************************************************************)
EXTENDS Integers, Sequences, FiniteSets, TLC

VARIABLES
    state,        \* AgentState threaded through the graph
    pc,           \* node the graph runs next: orchestrator/research/roadmap/END
    rpc,          \* research_agent position: idle / gathering
    settings,     \* [tavily_api_key, client_ok, extra_keys]
    task,         \* per-tag lookup status: created / awaiting / done / failed
    slot,         \* per-tag lookup outcome (TechnologyContext or exception)
    order,        \* indices of the lookups in completion order
    entered,      \* nodes entered so far, in order
    calls,        \* [llm, search]: external calls issued so far
    failure,      \* first node that returned an error, its error, calls then
    updates,      \* stream_roadmap_workflow: events yielded so far
    buffer,       \* roadmap_agent_stream: accumulated text
    last_valid_json, \* roadmap_agent_stream: last snapshot parsed
    events,       \* roadmap_agent_stream: events yielded so far
    spc,          \* roadmap_agent_stream position
    incoming,     \* increments received from the Completion Service stream
    consumer,     \* the caller iterating roadmap_agent_stream: draining / stopped
    response_text, \* a Completion Service answer handed to a parser
    parsed,       \* what the parser and its caller made of it
    disk,         \* FileBackend: the file at one path and one user's history file
    ret,          \* FileBackend: the last call and what it returned
    ghost,        \* FileBackend: what the calls so far were given
    coro,         \* FileBackend: the append coroutines in flight
    stored,       \* diagnosis: the session file of the repository
    reply,        \* diagnosis: the last use-case call and how it ended
    seen          \* diagnosis: the furthest phase the stored session was in

vars == <<state, pc, rpc, settings, task, slot, order, entered, calls, failure,
          updates, buffer, last_valid_json, events, spc, incoming, consumer,
          response_text, parsed, disk, ret, ghost, coro, stored, reply, seen>>

pipeVars == <<state, pc, rpc, settings, task, slot, order, entered, calls, failure,
              updates>>
streamVars == <<buffer, last_valid_json, events, spc, incoming, consumer>>
parseVars == <<response_text, parsed>>
storeVars == <<disk, ret, ghost, coro>>
diagVars == <<stored, reply, seen>>
otherVars == <<storeVars, diagVars>>

\* FileBackend at rest: nothing on disk, no call made.
NoFile == [exists |-> FALSE, raw |-> <<>>]
NoHistoryFile == [exists |-> FALSE, json |-> FALSE, items |-> <<>>]
NoReturn == [op |-> "none"]
NoGhost == [written |-> NoFile, initial |-> <<>>, appended |-> <<>>]
StoreIdle ==
    /\ disk = [file |-> NoFile, history |-> NoHistoryFile]
    /\ ret = NoReturn
    /\ ghost = NoGhost
    /\ coro = <<>>

\* No session file, and no use-case call yet.
NoSessionFile ==
    [exists |-> FALSE,
     data |-> [current_phase |-> "domain_selection", selected_domain |-> "None",
               selected_goal_id |-> "None", common_answers |-> <<>>,
               domain_answers |-> <<>>, roadmap |-> "None", is_completed |-> FALSE]]
NoReply == [op |-> "none"]
DiagIdle ==
    /\ stored = NoSessionFile
    /\ reply = NoReply
    /\ seen = 0
OthersIdle == StoreIdle /\ DiagIdle

-----------------------------------------------------------------------------
(* Bounds of the model *)

MaxTags == 2
MaxText == 3
MaxBuf == 5
MaxChunk == 2

-----------------------------------------------------------------------------
(* Text and JSON *)

None == "None"
EmptyDict == <<"{", "}">>

Alphabet == {"{", "}", "a", "t", "F", "j", "W"}

RECURSIVE SeqsUpTo(_, _)
SeqsUpTo(S, n) ==
    IF n = 0 THEN {<<>>}
    ELSE LET shorter == SeqsUpTo(S, n - 1)
         IN  shorter \cup {Append(s, x) : s \in {u \in shorter : Len(u) = n - 1}, x \in S}

Strip(s) == SelectSeq(s, LAMBDA c : c # "W")

RECURSIVE LTrim(_)
LTrim(s) == IF s # <<>> /\ Head(s) = "W" THEN LTrim(Tail(s)) ELSE s

RECURSIVE RTrim(_)
RTrim(s) ==
    IF s # <<>> /\ s[Len(s)] = "W" THEN RTrim(SubSeq(s, 1, Len(s) - 1)) ELSE s

\* TRUE iff the object opened before position i of s, at nesting depth d,
\* closes exactly at the end of s.
RECURSIVE ScanObj(_, _, _)
ScanObj(s, i, d) ==
    IF i > Len(s) THEN FALSE
    ELSE CASE s[i] = "{" -> ScanObj(s, i + 1, d + 1)
           [] s[i] \in {"a", "t"} -> ScanObj(s, i + 1, d)
           [] s[i] = "}" -> IF d = 1 THEN i = Len(s) ELSE ScanObj(s, i + 1, d - 1)
           [] OTHER -> FALSE

\* json.loads: whitespace between tokens is insignificant; anything that is
\* not one object raises JSONDecodeError (ok = FALSE).
JsonLoads(s) ==
    LET u == Strip(s)
    IN  IF Len(u) >= 2 /\ u[1] = "{" /\ ScanObj(u, 2, 1)
        THEN [ok |-> TRUE, value |-> u]
        ELSE [ok |-> FALSE, value |-> EmptyDict]

Positions(s, c) == {i \in 1..Len(s) : s[i] = c}
Min(S) == CHOOSE x \in S : \A y \in S : x <= y
Max(S) == CHOOSE x \in S : \A y \in S : x >= y

\* re.search(r"```(?:json)?\s*([\s\S]*?)\s*```", text): group 1, or no match.
FencedBlock(s) ==
    LET fs == Positions(s, "F")
    IN  IF Cardinality(fs) < 2 THEN [found |-> FALSE, group |-> <<>>]
        ELSE LET p == Min(fs)
                 q == Min(fs \ {p})
                 inner == SubSeq(s, p + 1, q - 1)
                 noTag == IF inner # <<>> /\ Head(inner) = "j" THEN Tail(inner) ELSE inner
             IN  [found |-> TRUE, group |-> RTrim(LTrim(noTag))]

\* re.search(r"\{[\s\S]*\}", text): group 0, or no match.
BraceSpan(s) ==
    LET os == Positions(s, "{")
        cs == Positions(s, "}")
    IN  IF os = {} \/ cs = {} \/ Max(cs) < Min(os) THEN [found |-> FALSE, group |-> <<>>]
        ELSE [found |-> TRUE, group |-> SubSeq(s, Min(os), Max(cs))]

\* json.loads of the entire response only.
ThreeTierWholeOnly(s) ==
    LET t2 == JsonLoads(s)
    IN  IF t2.ok THEN [ok |-> TRUE, value |-> t2.value, tier |-> 2]
        ELSE [ok |-> FALSE, value |-> EmptyDict, tier |-> 0]

\* The three tiers shared by _parse_tags_response and _parse_roadmap_response:
\* the first tier whose json.loads succeeds wins.
ThreeTier(s) ==
    LET fb == FencedBlock(s)
        t1 == JsonLoads(fb.group)
        t2 == JsonLoads(s)
        bs == BraceSpan(s)
        t3 == JsonLoads(bs.group)
    IN  IF fb.found /\ t1.ok THEN [ok |-> TRUE, value |-> t1.value, tier |-> 1]
        ELSE IF t2.ok THEN [ok |-> TRUE, value |-> t2.value, tier |-> 2]
        ELSE IF bs.found /\ t3.ok THEN [ok |-> TRUE, value |-> t3.value, tier |-> 3]
        ELSE [ok |-> FALSE, value |-> EmptyDict, tier |-> 0]

_parse_roadmap_response(s) == ThreeTier(s).value


\* Members found at the top level of a parsed object (what dict.get can see).
Depth(v, i) ==
    Cardinality({k \in 1..(i - 1) : v[k] = "{"}) - Cardinality({k \in 1..(i - 1) : v[k] = "}"})
TopMembers(v) == {v[i] : i \in {k \in 1..Len(v) : v[k] \in {"a", "t"} /\ Depth(v, k) = 1}}

\* What a parser run leaves: the parser, the object it read, the tag list
\* the answer carried and the one returned, and the caller's error.
NotParsed ==
    [by |-> "none", value |-> EmptyDict, given |-> <<>>, tags |-> <<>>, error |-> None]

-----------------------------------------------------------------------------
(* state.py *)

Tags == {"React", "Vue"}
TagLists == SeqsUpTo(Tags, MaxTags)

TechnologyContext(name, summary, links) ==
    [name |-> name, summary |-> summary, links |-> links]

SchemaKeys == {"user_input", "tags", "context", "roadmap_json", "error",
               "messages", "current_agent"}

create_initial_state(user_input) ==
    [user_input |-> user_input, tags |-> <<>>, sub_tags |-> <<>>, context |-> <<>>,
     roadmap_json |-> EmptyDict, error |-> None, messages |-> <<>>,
     current_agent |-> ""]

\* A node's return value is merged key by key into the state; every key a
\* node does not return keeps its value.  sub_tags is returned by the
\* orchestrator but is not a key of AgentState: whether the graph library
\* keeps such a key is not decided by this repository (settings.extra_keys).
Merge(st, delta, extra_keys) ==
    [k \in DOMAIN st |->
        IF k \in DOMAIN delta /\ (k \in SchemaKeys \/ extra_keys) THEN delta[k] ELSE st[k]]

-----------------------------------------------------------------------------
(* orchestrator_agent.py *)

\* Keyword files beside the agents: React has one, Vue has none.
KeywordFiles ==
    [tag \in Tags |->
        IF tag = "React"
        THEN <<[word |-> "Component", relevance_level |-> 5],
               [word |-> "Hooks", relevance_level |-> 4],
               [word |-> "Fiber", relevance_level |-> 3]>>
        ELSE <<>>]

MinRelevance == 4

\* Every keyword of the file, whatever its relevance_level.
ExtractAllKeywords(technology) ==
    LET kws == KeywordFiles[technology]
    IN  [i \in 1..Len(kws) |->
            [word |-> kws[i].word, relevance_level |-> kws[i].relevance_level,
             technology |-> technology]]

_extract_sub_tags(technology) ==
    LET kws == KeywordFiles[technology]
        high == SelectSeq(kws, LAMBDA kw : kw.relevance_level >= MinRelevance)
    IN  [i \in 1..Len(high) |->
            [word |-> high[i].word, relevance_level |-> high[i].relevance_level,
             technology |-> technology]]

RECURSIVE AllSubTags(_)
AllSubTags(tags) ==
    IF tags = <<>> THEN <<>> ELSE _extract_sub_tags(Head(tags)) \o AllSubTags(Tail(tags))

\* A Completion Service answer to the extraction prompt: its text, and the
\* list its "tags" member ("t") carries.
_parse_tags_response(resp) ==
    LET r == ThreeTier(resp.text)
    IN  IF r.ok /\ "t" \in TopMembers(r.value) THEN resp.tags ELSE <<>>

OrchestratorNoInput ==
    [tags |-> <<>>, error |-> "No user input provided", current_agent |-> "orchestrator"]
OrchestratorRaised ==
    [tags |-> <<>>, error |-> "Orchestrator agent error", current_agent |-> "orchestrator"]
OrchestratorNoTags ==
    [tags |-> <<>>, error |-> "Failed to extract tags from user input",
     current_agent |-> "orchestrator"]
OrchestratorOk(tags) ==
    [tags |-> tags, sub_tags |-> AllSubTags(tags), error |-> None,
     current_agent |-> "orchestrator"]

\* orchestrator_agent once the Completion Service answered (or raised).
OrchestratorResult(outcome) ==
    IF outcome.raised THEN OrchestratorRaised
    ELSE LET tags == _parse_tags_response(outcome.resp)
         IN  IF tags = <<>> THEN OrchestratorNoTags ELSE OrchestratorOk(tags)

-----------------------------------------------------------------------------
(* research_agent.py *)

SummaryResults == 3
MaxLinks == 5

GoodResult == [title |-> "T", url |-> "U", content |-> "C"]
UntitledResult == [title |-> "", url |-> "U", content |-> "D"]
ResultLists == {<<>>, <<GoodResult>>, <<UntitledResult, GoodResult>>}
SearchResponses == [answer : {"", "ans"}, results : ResultLists]
Reasons == {"timeout"}

Prefix(s, n) == SubSeq(s, 1, IF Len(s) < n THEN Len(s) ELSE n)

_research_technology(tag, response) ==
    LET top == Prefix(response.results, SummaryResults)
        snippets == [i \in 1..Len(top) |-> top[i].content]
        summary == IF response.answer # "" THEN <<response.answer>>
                   ELSE IF response.results # <<>> THEN snippets
                   ELSE <<tag, "placeholder">>
        linked == SelectSeq(Prefix(response.results, MaxLinks),
                            LAMBDA r : r.title # "" /\ r.url # "")
        links == [i \in 1..Len(linked) |-> [title |-> linked[i].title, url |-> linked[i].url]]
    IN  TechnologyContext(tag, summary, links)

NoContext == TechnologyContext("", <<>>, <<>>)
Pending == [kind |-> "pending", ctx |-> NoContext, reason |-> ""]
Returned(ctx) == [kind |-> "ok", ctx |-> ctx, reason |-> ""]
Raised(reason) == [kind |-> "exc", ctx |-> NoContext, reason |-> reason]

\* asyncio.gather(*research_tasks, return_exceptions=True) resolves when
\* every task has finished, whether it returned or raised.
GatherReadyFailFast(tk) ==
    (\E i \in DOMAIN tk : tk[i] = "failed") \/ (\A i \in DOMAIN tk : tk[i] = "done")
GatherReady(tk) == \A i \in DOMAIN tk : tk[i] \in {"done", "failed"}

\* ... and its result list is in the order of the awaitables passed in.
GatherResultsAsCompleted(sl, ord) ==
    [k \in DOMAIN sl |-> IF k <= Len(ord) THEN sl[ord[k]] ELSE Pending]
GatherResults(sl, ord) == [k \in DOMAIN sl |-> sl[k]]

FailedContextWithLinks(tag, result) ==
    TechnologyContext(tag, <<"Research failed: ", result.reason>>, <<[title |-> "", url |-> ""]>>)
FailedContext(tag, result) ==
    TechnologyContext(tag, <<"Research failed: ", result.reason>>, <<>>)

\* for tag, result in zip(tags, results): one entry per pair.
ContextListSkipFailed(tags, results) ==
    LET keep == SelectSeq([i \in 1..Len(tags) |-> i], LAMBDA i : results[i].kind = "ok")
    IN  [k \in 1..Len(keep) |-> results[keep[k]].ctx]
ContextList(tags, results) ==
    [i \in 1..Len(tags) |->
        IF results[i].kind = "exc" THEN FailedContext(tags[i], results[i])
        ELSE results[i].ctx]

ResearchNoTagsErrorOwn(st) == "No tags to research"
ResearchNoTagsError(st) == IF st.error # None THEN st.error ELSE "No tags to research"

ResearchErrorFailFast(results) ==
    IF \E i \in DOMAIN results : results[i].kind = "exc"
    THEN "Research agent error" ELSE None
ResearchError(results) == None

ResearchFailed(error) ==
    [context |-> <<>>, error |-> error, current_agent |-> "research"]
ResearchOk(tags, results) ==
    [context |-> ContextList(tags, results), error |-> ResearchError(results),
     current_agent |-> "research"]

-----------------------------------------------------------------------------
(* roadmap_agent.py: batch mode *)

RoadmapNoContextError(st) ==
    IF st.error # None THEN st.error ELSE "No technology context available"

RoadmapFailed(error) ==
    [roadmap_json |-> EmptyDict, error |-> error, current_agent |-> "roadmap"]
RoadmapOkDropsContext(roadmap_json) ==
    [roadmap_json |-> roadmap_json, error |-> None, current_agent |-> "roadmap",
     context |-> <<>>]
RoadmapOk(roadmap_json) ==
    [roadmap_json |-> roadmap_json, error |-> None, current_agent |-> "roadmap"]

\* roadmap_agent once the Completion Service answered (or raised).  sized:
\* whether len() accepts the value of the "technologies" member.
RoadmapResult(outcome) ==
    IF outcome.raised THEN RoadmapFailed("Roadmap agent error")
    ELSE LET roadmap_json == _parse_roadmap_response(outcome.text)
         IN  IF roadmap_json = EmptyDict THEN RoadmapFailed("Failed to parse roadmap JSON")
             ELSE IF "t" \in TopMembers(roadmap_json) /\ ~outcome.sized
                  THEN RoadmapFailed("Roadmap agent error")
             ELSE RoadmapOk(roadmap_json)

-----------------------------------------------------------------------------
(* graph.py: START -> orchestrator -> research -> roadmap -> END *)

NextNodeLoop(node) ==
    CASE node = "orchestrator" -> "research"
      [] node = "research" -> "roadmap"
      [] node = "roadmap" -> "orchestrator"
NextNode(node) ==
    CASE node = "orchestrator" -> "research"
      [] node = "research" -> "roadmap"
      [] node = "roadmap" -> "END"

NoFailure == [node |-> "none", error |-> None, llm |-> 0, search |-> 0]

\* "is_final": node_name == "roadmap"
IsFinalEveryNode(node_name) == TRUE
IsFinal(node_name) == node_name = "roadmap"

\* What stream_roadmap_workflow yields for one item of graph.astream
WorkflowEvent(node_name, node_output) ==
    [agent |-> node_name, state |-> node_output, is_final |-> IsFinal(node_name)]

\* A node returns delta: the graph merges it, reports the update and moves
\* along the edge.
NodeReturns(node, delta, newCalls) ==
    /\ state' = Merge(state, delta, settings.extra_keys)
    /\ updates' = Append(updates, WorkflowEvent(node, delta))
    /\ pc' = NextNode(node)
    /\ calls' = newCalls
    /\ failure' = IF failure.node = "none" /\ delta.error # None
                  THEN [node |-> node, error |-> delta.error,
                        llm |-> newCalls.llm, search |-> newCalls.search]
                  ELSE failure

Texts == SeqsUpTo(Alphabet, MaxText)
UserInputs == {"", "request"}
UsesLLM == [llm |-> calls.llm + 1, search |-> calls.search]

\* What the Completion Service can do on llm.ainvoke: raise, or answer.
OrchestratorOutcomes ==
    [raised : {TRUE}, resp : {[text |-> <<>>, tags |-> <<>>]}]
        \cup [raised : {FALSE}, resp : [text : Texts, tags : TagLists]]
OrchestratorResults == {OrchestratorResult(outcome) : outcome \in OrchestratorOutcomes}

RoadmapOutcomes ==
    [raised : {TRUE}, text : {<<>>}, sized : {TRUE}]
        \cup [raised : {FALSE}, text : Texts, sized : BOOLEAN]
RoadmapResults == {RoadmapResult(outcome) : outcome \in RoadmapOutcomes}

Init ==
    /\ \E user_input \in UserInputs : state = create_initial_state(user_input)
    /\ pc = "orchestrator"
    /\ rpc = "idle"
    /\ settings \in [tavily_api_key : BOOLEAN, client_ok : BOOLEAN, extra_keys : BOOLEAN]
    /\ task = <<>>
    /\ slot = <<>>
    /\ order = <<>>
    /\ entered = <<>>
    /\ calls = [llm |-> 0, search |-> 0]
    /\ failure = NoFailure
    /\ updates = <<>>
    /\ buffer = <<>>
    /\ last_valid_json = EmptyDict
    /\ events = <<>>
    /\ spc = "off"
    /\ incoming = <<>>
    /\ consumer = "draining"
    /\ response_text = <<>>
    /\ parsed = NotParsed
    /\ OthersIdle

\* if not user_input
NoUserInputNever(st) == FALSE
NoUserInput(st) == st.user_input = ""

OrchestratorEmptyInput ==
    /\ pc = "orchestrator"
    /\ NoUserInput(state)
    /\ entered' = Append(entered, "orchestrator")
    /\ NodeReturns("orchestrator", OrchestratorNoInput, calls)
    /\ UNCHANGED <<rpc, settings, task, slot, order>>
    /\ UNCHANGED streamVars
    /\ UNCHANGED parseVars
    /\ UNCHANGED otherVars

OrchestratorInvoke ==
    /\ pc = "orchestrator"
    /\ ~NoUserInput(state)
    /\ entered' = Append(entered, "orchestrator")
    /\ \E delta \in OrchestratorResults :
          NodeReturns("orchestrator", delta, UsesLLM)
    /\ UNCHANGED <<rpc, settings, task, slot, order>>
    /\ UNCHANGED streamVars
    /\ UNCHANGED parseVars
    /\ UNCHANGED otherVars

ResearchNoTags ==
    /\ pc = "research" /\ rpc = "idle"
    /\ state.tags = <<>>
    /\ entered' = Append(entered, "research")
    /\ NodeReturns("research", ResearchFailed(ResearchNoTagsError(state)), calls)
    /\ UNCHANGED <<rpc, settings, task, slot, order>>
    /\ UNCHANGED streamVars
    /\ UNCHANGED parseVars
    /\ UNCHANGED otherVars

ResearchNoKey ==
    /\ pc = "research" /\ rpc = "idle"
    /\ state.tags # <<>>
    /\ ~settings.tavily_api_key
    /\ entered' = Append(entered, "research")
    /\ NodeReturns("research", ResearchFailed("Tavily API key not configured"), calls)
    /\ UNCHANGED <<rpc, settings, task, slot, order>>
    /\ UNCHANGED streamVars
    /\ UNCHANGED parseVars
    /\ UNCHANGED otherVars

ResearchClientError ==
    /\ pc = "research" /\ rpc = "idle"
    /\ state.tags # <<>>
    /\ settings.tavily_api_key
    /\ ~settings.client_ok
    /\ entered' = Append(entered, "research")
    /\ NodeReturns("research", ResearchFailed("Research agent error"), calls)
    /\ UNCHANGED <<rpc, settings, task, slot, order>>
    /\ UNCHANGED streamVars
    /\ UNCHANGED parseVars
    /\ UNCHANGED otherVars

\* research_tasks = [_research_technology(client, tag) for tag in tags]
ResearchFanOut ==
    /\ pc = "research" /\ rpc = "idle"
    /\ state.tags # <<>>
    /\ settings.tavily_api_key
    /\ settings.client_ok
    /\ entered' = Append(entered, "research")
    /\ rpc' = "gathering"
    /\ task' = [i \in 1..Len(state.tags) |-> "created"]
    /\ slot' = [i \in 1..Len(state.tags) |-> Pending]
    /\ order' = <<>>
    /\ UNCHANGED <<state, pc, settings, calls, failure, updates>>
    /\ UNCHANGED streamVars
    /\ UNCHANGED parseVars
    /\ UNCHANGED otherVars

\* A lookup runs up to its await of client.search; the event loop starts
\* the tasks in the order gather received them.
TaskStart(i) ==
    /\ rpc = "gathering"
    /\ task[i] = "created"
    /\ \A j \in 1..(i - 1) : task[j] # "created"
    /\ task' = [task EXCEPT ![i] = "awaiting"]
    /\ calls' = [calls EXCEPT !.search = @ + 1]
    /\ UNCHANGED <<state, pc, rpc, settings, slot, order, entered, failure, updates>>
    /\ UNCHANGED streamVars
    /\ UNCHANGED parseVars
    /\ UNCHANGED otherVars

TaskDone(i) ==
    /\ rpc = "gathering"
    /\ task[i] = "awaiting"
    /\ \E response \in SearchResponses :
          slot' = [slot EXCEPT ![i] = Returned(_research_technology(state.tags[i], response))]
    /\ task' = [task EXCEPT ![i] = "done"]
    /\ order' = Append(order, i)
    /\ UNCHANGED <<state, pc, rpc, settings, entered, calls, failure, updates>>
    /\ UNCHANGED streamVars
    /\ UNCHANGED parseVars
    /\ UNCHANGED otherVars

TaskFail(i) ==
    /\ rpc = "gathering"
    /\ task[i] = "awaiting"
    /\ \E reason \in Reasons : slot' = [slot EXCEPT ![i] = Raised(reason)]
    /\ task' = [task EXCEPT ![i] = "failed"]
    /\ order' = Append(order, i)
    /\ UNCHANGED <<state, pc, rpc, settings, entered, calls, failure, updates>>
    /\ UNCHANGED streamVars
    /\ UNCHANGED parseVars
    /\ UNCHANGED otherVars

\* results = await asyncio.gather(...); the loop over zip(tags, results);
\* return.  The lookups' statuses stay readable until the next node runs.
ResearchJoin ==
    /\ pc = "research" /\ rpc = "gathering"
    /\ GatherReady(task)
    /\ rpc' = "idle"
    /\ NodeReturns("research", ResearchOk(state.tags, GatherResults(slot, order)), calls)
    /\ UNCHANGED <<settings, task, slot, order, entered>>
    /\ UNCHANGED streamVars
    /\ UNCHANGED parseVars
    /\ UNCHANGED otherVars

RoadmapNoContext ==
    /\ pc = "roadmap"
    /\ state.context = <<>>
    /\ entered' = Append(entered, "roadmap")
    /\ NodeReturns("roadmap", RoadmapFailed(RoadmapNoContextError(state)), calls)
    /\ task' = <<>> /\ slot' = <<>> /\ order' = <<>>
    /\ UNCHANGED <<rpc, settings>>
    /\ UNCHANGED streamVars
    /\ UNCHANGED parseVars
    /\ UNCHANGED otherVars

RoadmapInvoke ==
    /\ pc = "roadmap"
    /\ state.context # <<>>
    /\ entered' = Append(entered, "roadmap")
    /\ \E delta \in RoadmapResults :
          NodeReturns("roadmap", delta, UsesLLM)
    /\ task' = <<>> /\ slot' = <<>> /\ order' = <<>>
    /\ UNCHANGED <<rpc, settings>>
    /\ UNCHANGED streamVars
    /\ UNCHANGED parseVars
    /\ UNCHANGED otherVars

Next ==
    \/ OrchestratorEmptyInput
    \/ OrchestratorInvoke
    \/ ResearchNoTags
    \/ ResearchNoKey
    \/ ResearchClientError
    \/ ResearchFanOut
    \/ \E i \in DOMAIN task : TaskStart(i)
    \/ \E i \in DOMAIN task : TaskDone(i)
    \/ \E i \in DOMAIN task : TaskFail(i)
    \/ ResearchJoin
    \/ RoadmapNoContext
    \/ RoadmapInvoke

Spec == Init /\ [][Next]_vars

-----------------------------------------------------------------------------
(* roadmap_agent.py: streaming mode *)

StreamAlphabet == {"{", "}", "t", "F", "W"}

\* The brace counter of _try_parse_partial_json from position i on; start = 0
\* stands for start_idx = -1.  The first balanced span that json.loads
\* accepts is returned.
RECURSIVE PartialScan(_, _, _, _)
PartialScan(text, i, brace_count, start_idx) ==
    IF i > Len(text) THEN [ok |-> FALSE, value |-> EmptyDict]
    ELSE IF text[i] = "{"
         THEN PartialScan(text, i + 1, brace_count + 1, IF start_idx = 0 THEN i ELSE start_idx)
    ELSE IF text[i] = "}"
         THEN LET attempt == JsonLoads(SubSeq(text, start_idx, i))
              IN  IF brace_count - 1 = 0 /\ start_idx # 0 /\ attempt.ok
                  THEN attempt
                  ELSE PartialScan(text, i + 1, brace_count - 1, start_idx)
    ELSE PartialScan(text, i + 1, brace_count, start_idx)

\* s[k..] is \s* followed by a fence.
ClosesFence(s, k) ==
    \E q \in k..Len(s) : s[q] = "F" /\ \A m \in k..(q - 1) : s[m] = "W"

RECURSIVE SkipW(_, _)
SkipW(s, k) == IF k <= Len(s) /\ s[k] = "W" THEN SkipW(s, k + 1) ELSE k

\* re.search(r"```(?:json)?\s*(\{[\s\S]*?\})\s*```", text): group 1.
FencedObject(s) ==
    LET open(p) == SkipW(s, IF p < Len(s) /\ s[p + 1] = "j" THEN p + 2 ELSE p + 1)
        closes(p) == {b \in (open(p) + 1)..Len(s) : s[b] = "}" /\ ClosesFence(s, b + 1)}
        matches == {p \in Positions(s, "F") :
                       open(p) <= Len(s) /\ s[open(p)] = "{" /\ closes(p) # {}}
    IN  IF matches = {} THEN [found |-> FALSE, group |-> <<>>]
        ELSE LET p == Min(matches)
             IN  [found |-> TRUE, group |-> SubSeq(s, open(p), Min(closes(p)))]

\* The last complete object of the text instead of the first.
TryParseLastObject(text) ==
    LET spans == {sp \in (1..Len(text)) \X (1..Len(text)) :
                     /\ text[sp[1]] = "{" /\ text[sp[2]] = "}"
                     /\ JsonLoads(SubSeq(text, sp[1], sp[2])).ok}
    IN  IF spans = {} THEN EmptyDict
        ELSE LET b == Max({sp[2] : sp \in spans})
                 a == Min({sp[1] : sp \in {x \in spans : x[2] = b}})
             IN  JsonLoads(SubSeq(text, a, b)).value

_try_parse_partial_json(text) ==
    LET scan == PartialScan(text, 1, 0, 0)
        whole == JsonLoads(text)
        fo == FencedObject(text)
        fenced == JsonLoads(fo.group)
    IN  IF scan.ok THEN scan.value
        ELSE IF whole.ok THEN whole.value
        ELSE IF fo.found /\ fenced.ok THEN fenced.value
        ELSE EmptyDict

ChunkEvent(content) ==
    [type |-> "chunk", content |-> content, roadmap |-> EmptyDict, complete |-> FALSE,
     error |-> None]
ProgressEvent(roadmap) ==
    [type |-> "progress", content |-> <<>>, roadmap |-> roadmap, complete |-> FALSE,
     error |-> None]
CompleteEvent(roadmap) ==
    [type |-> "complete", content |-> <<>>, roadmap |-> roadmap, complete |-> TRUE,
     error |-> None]
ErrorEvent(error) ==
    [type |-> "error", content |-> <<>>, roadmap |-> EmptyDict, complete |-> FALSE,
     error |-> error]

\* buffer += content
AccumulateOverwrite(buf, content) == content
Accumulate(buf, content) == buf \o content

\* The roadmap of the complete event: the parse of the whole buffer.
FinalRoadmapFromSnapshot(buf, snapshot) == snapshot
FinalRoadmap(buf, snapshot) == _parse_roadmap_response(buf)

\* What follows a terminal yield: the generator is exhausted.
AfterTerminalGoesOn == "await_chunk"
AfterTerminal == "done"

\* if parsed_json and parsed_json != last_valid_json
ShouldEmitEveryParse(parsed_json, last) == parsed_json # EmptyDict
ShouldEmit(parsed_json, last) == parsed_json # EmptyDict /\ parsed_json # last

\* The body of an async generator runs only while its caller awaits the next
\* item: async for chunk in llm.astream(messages) is inside the generator.
PulledOrNot(caller) == TRUE
Pulled(caller) == caller = "draining"

\* if not context: the precondition of the streaming synthesizer
HasContextAlways(st) == TRUE
HasContext(st) == st.context # <<>>

SomeContext == <<TechnologyContext("React", <<"ans">>, <<>>)>>
StreamStates ==
    {[create_initial_state("request") EXCEPT !.tags = <<"React">>, !.context = in[1],
                                             !.error = in[2]] :
        in \in {<<<<>>, None>>, <<<<>>, "Research agent error">>, <<SomeContext, None>>}}

\* Non-empty increments of at most MaxChunk tokens.
Chunks == SeqsUpTo(StreamAlphabet, MaxChunk) \ {<<>>}

InitStream ==
    /\ state \in StreamStates
    /\ pc = "stream"
    /\ rpc = "idle"
    /\ settings = [tavily_api_key |-> TRUE, client_ok |-> TRUE, extra_keys |-> FALSE]
    /\ task = <<>>
    /\ slot = <<>>
    /\ order = <<>>
    /\ entered = <<>>
    /\ calls = [llm |-> 0, search |-> 0]
    /\ failure = NoFailure
    /\ updates = <<>>
    /\ buffer = <<>>
    /\ last_valid_json = EmptyDict
    /\ events = <<>>
    /\ spc = "start"
    /\ incoming = <<>>
    /\ consumer = "draining"
    /\ response_text = <<>>
    /\ parsed = NotParsed
    /\ OthersIdle

\* if not context: yield error; return
StreamNoContext ==
    /\ spc = "start"
    /\ Pulled(consumer)
    /\ UNCHANGED consumer
    /\ ~HasContext(state)
    /\ events' = Append(events, ErrorEvent(RoadmapNoContextError(state)))
    /\ spc' = AfterTerminal
    /\ UNCHANGED <<buffer, last_valid_json, incoming>>
    /\ UNCHANGED pipeVars
    /\ UNCHANGED parseVars
    /\ UNCHANGED otherVars

\* get_llm(), the messages, buffer = "", last_valid_json = {}, llm.astream
StreamOpen ==
    /\ spc = "start"
    /\ Pulled(consumer)
    /\ UNCHANGED consumer
    /\ HasContext(state)
    /\ buffer' = <<>>
    /\ last_valid_json' = EmptyDict
    /\ calls' = UsesLLM
    /\ spc' = "await_chunk"
    /\ UNCHANGED <<events, incoming>>
    /\ UNCHANGED <<state, pc, rpc, settings, task, slot, order, entered, failure,
                   updates>>
    /\ UNCHANGED parseVars
    /\ UNCHANGED otherVars

\* The stream delivers an increment: buffer += content; yield chunk
StreamIncrement ==
    /\ spc = "await_chunk"
    /\ Pulled(consumer)
    /\ UNCHANGED consumer
    /\ \E content \in Chunks :
          /\ Len(buffer) + Len(content) <= MaxBuf
          /\ buffer' = Accumulate(buffer, content)
          /\ incoming' = Append(incoming, content)
          /\ events' = Append(events, ChunkEvent(content))
    /\ spc' = "chunk_yielded"
    /\ UNCHANGED last_valid_json
    /\ UNCHANGED pipeVars
    /\ UNCHANGED parseVars
    /\ UNCHANGED otherVars

\* parsed_json and parsed_json != last_valid_json: yield progress
StreamProgress ==
    /\ spc = "chunk_yielded"
    /\ Pulled(consumer)
    /\ UNCHANGED consumer
    /\ LET parsed_json == _try_parse_partial_json(buffer)
       IN  /\ ShouldEmit(parsed_json, last_valid_json)
           /\ last_valid_json' = parsed_json
           /\ events' = Append(events, ProgressEvent(parsed_json))
    /\ spc' = "await_chunk"
    /\ UNCHANGED <<buffer, incoming>>
    /\ UNCHANGED pipeVars
    /\ UNCHANGED parseVars
    /\ UNCHANGED otherVars

StreamNoProgress ==
    /\ spc = "chunk_yielded"
    /\ Pulled(consumer)
    /\ UNCHANGED consumer
    /\ LET parsed_json == _try_parse_partial_json(buffer)
       IN  ~ShouldEmit(parsed_json, last_valid_json)
    /\ spc' = "await_chunk"
    /\ UNCHANGED <<buffer, last_valid_json, events, incoming>>
    /\ UNCHANGED pipeVars
    /\ UNCHANGED parseVars
    /\ UNCHANGED otherVars

\* The Completion Service raises, before or between increments:
\* except Exception: yield error
StreamRaises ==
    /\ spc = "await_chunk"
    /\ Pulled(consumer)
    /\ UNCHANGED consumer
    /\ events' = Append(events, ErrorEvent("Roadmap agent error"))
    /\ spc' = AfterTerminal
    /\ UNCHANGED <<buffer, last_valid_json, incoming>>
    /\ UNCHANGED pipeVars
    /\ UNCHANGED parseVars
    /\ UNCHANGED otherVars

\* The stream ends and the buffer does not parse: yield error; return
StreamEndsUnparsable ==
    /\ spc = "await_chunk"
    /\ Pulled(consumer)
    /\ UNCHANGED consumer
    /\ FinalRoadmap(buffer, last_valid_json) = EmptyDict
    /\ events' = Append(events, ErrorEvent("Failed to parse roadmap JSON from response"))
    /\ spc' = AfterTerminal
    /\ UNCHANGED <<buffer, last_valid_json, incoming>>
    /\ UNCHANGED pipeVars
    /\ UNCHANGED parseVars
    /\ UNCHANGED otherVars

\* The stream ends and the buffer parses: yield complete; or len() of the
\* "technologies" member raises: except Exception: yield error
StreamEndsParsed ==
    /\ spc = "await_chunk"
    /\ Pulled(consumer)
    /\ UNCHANGED consumer
    /\ LET final_roadmap == FinalRoadmap(buffer, last_valid_json)
       IN  /\ final_roadmap # EmptyDict
           /\ \E sized \in BOOLEAN :
                 events' = Append(events,
                    IF "t" \in TopMembers(final_roadmap) /\ ~sized
                    THEN ErrorEvent("Roadmap agent error")
                    ELSE CompleteEvent(final_roadmap))
    /\ spc' = AfterTerminal
    /\ UNCHANGED <<buffer, last_valid_json, incoming>>
    /\ UNCHANGED pipeVars
    /\ UNCHANGED parseVars
    /\ UNCHANGED otherVars

\* The caller stops iterating (the client is gone, the response task is
\* cancelled): the generator is left where it is, or is closed there.
ConsumerStops ==
    /\ spc \in {"await_chunk", "chunk_yielded"}
    /\ consumer = "draining"
    /\ consumer' = "stopped"
    /\ UNCHANGED <<buffer, last_valid_json, events, spc, incoming>>
    /\ UNCHANGED pipeVars
    /\ UNCHANGED parseVars
    /\ UNCHANGED otherVars

NextStream ==
    \/ ConsumerStops
    \/ StreamNoContext
    \/ StreamOpen
    \/ StreamIncrement
    \/ StreamProgress
    \/ StreamNoProgress
    \/ StreamRaises
    \/ StreamEndsUnparsable
    \/ StreamEndsParsed

SpecStream == InitStream /\ [][NextStream]_vars

\* roadmap_agent_stream on responses made of objects only: longer buffers,
\* so that a second complete object can follow the first.
MaxObjects == 7
ObjectAlphabet == {"{", "}", "t"}
ObjectChunks == SeqsUpTo(ObjectAlphabet, MaxChunk) \ {<<>>}

InitObjects == InitStream /\ HasContext(state)

StreamIncrementObjects ==
    /\ spc = "await_chunk"
    /\ Pulled(consumer)
    /\ UNCHANGED consumer
    /\ \E content \in ObjectChunks :
          /\ Len(buffer) + Len(content) <= MaxObjects
          /\ buffer' = Accumulate(buffer, content)
          /\ incoming' = Append(incoming, content)
          /\ events' = Append(events, ChunkEvent(content))
    /\ spc' = "chunk_yielded"
    /\ UNCHANGED last_valid_json
    /\ UNCHANGED pipeVars
    /\ UNCHANGED parseVars
    /\ UNCHANGED otherVars

NextObjects ==
    \/ StreamOpen
    \/ StreamIncrementObjects
    \/ StreamProgress
    \/ StreamNoProgress
    \/ StreamRaises
    \/ StreamEndsUnparsable
    \/ StreamEndsParsed

SpecObjects == InitObjects /\ [][NextObjects]_vars

-----------------------------------------------------------------------------
(* The parsers on their own: _parse_tags_response with its caller
   orchestrator_agent, _parse_roadmap_response with its caller roadmap_agent *)

MaxResponse == 4
Responses == SeqsUpTo(Alphabet, MaxResponse)

InitParse ==
    /\ response_text \in Responses
    /\ parsed = NotParsed
    /\ OthersIdle
    /\ state = create_initial_state("request")
    /\ pc = "parse"
    /\ rpc = "idle"
    /\ settings = [tavily_api_key |-> TRUE, client_ok |-> TRUE, extra_keys |-> FALSE]
    /\ task = <<>>
    /\ slot = <<>>
    /\ order = <<>>
    /\ entered = <<>>
    /\ calls = [llm |-> 0, search |-> 0]
    /\ failure = NoFailure
    /\ updates = <<>>
    /\ buffer = <<>>
    /\ last_valid_json = EmptyDict
    /\ events = <<>>
    /\ spc = "off"
    /\ incoming = <<>>
    /\ consumer = "draining"

\* orchestrator_agent on the answer: tags = _parse_tags_response(...), then
\* the error or the tags it returns
ParseTags ==
    /\ pc = "parse" /\ parsed.by = "none"
    /\ \E given \in TagLists :
          LET resp == [text |-> response_text, tags |-> given]
              result == OrchestratorResult([raised |-> FALSE, resp |-> resp])
          IN  parsed' = [by |-> "orchestrator_agent",
                         value |-> ThreeTier(response_text).value,
                         given |-> given,
                         tags |-> result.tags,
                         error |-> result.error]
    /\ UNCHANGED response_text
    /\ UNCHANGED <<pipeVars, streamVars>>
    /\ UNCHANGED otherVars

\* roadmap_agent on the answer: roadmap_json = _parse_roadmap_response(...)
ParseRoadmap ==
    /\ pc = "parse" /\ parsed.by = "none"
    /\ LET result == RoadmapResult([raised |-> FALSE, text |-> response_text,
                                    sized |-> TRUE])
       IN  parsed' = [by |-> "roadmap_agent",
                      value |-> _parse_roadmap_response(response_text),
                      given |-> <<>>,
                      tags |-> <<>>,
                      error |-> result.error]
    /\ UNCHANGED response_text
    /\ UNCHANGED <<pipeVars, streamVars>>
    /\ UNCHANGED otherVars

\* The answer as a Completion Service fences it: ```json, newline, the
\* text, newline, ```
Fenced(text) == <<"F", "j", "W">> \o text \o <<"W", "F">>

\* Both parsers on the fenced answer
ParseFenced ==
    /\ pc = "parse" /\ parsed.by = "none"
    /\ \E given \in TagLists :
          parsed' = [by |-> "fenced",
                     value |-> _parse_roadmap_response(Fenced(response_text)),
                     given |-> given,
                     tags |-> _parse_tags_response([text |-> Fenced(response_text),
                                                    tags |-> given]),
                     error |-> None]
    /\ UNCHANGED response_text
    /\ UNCHANGED <<pipeVars, streamVars>>
    /\ UNCHANGED otherVars

\* _try_parse_partial_json on a buffer holding the answer so far
ParsePartial ==
    /\ pc = "parse" /\ parsed.by = "none"
    /\ parsed' = [by |-> "_try_parse_partial_json",
                  value |-> _try_parse_partial_json(response_text),
                  given |-> <<>>,
                  tags |-> <<>>,
                  error |-> None]
    /\ UNCHANGED response_text
    /\ UNCHANGED <<pipeVars, streamVars>>
    /\ UNCHANGED otherVars

NextParse ==
    \/ ParseTags
    \/ ParseRoadmap
    \/ ParseFenced
    \/ ParsePartial

SpecParse == InitParse /\ [][NextParse]_vars

-----------------------------------------------------------------------------
(* storage/file_backend.py: FileBackend on one path *)

\* The agents at rest, while other parts of the program run.
AgentsIdle ==
    /\ state = create_initial_state("")
    /\ pc = "off"
    /\ rpc = "idle"
    /\ settings = [tavily_api_key |-> FALSE, client_ok |-> FALSE, extra_keys |-> FALSE]
    /\ task = <<>>
    /\ slot = <<>>
    /\ order = <<>>
    /\ entered = <<>>
    /\ calls = [llm |-> 0, search |-> 0]
    /\ failure = NoFailure
    /\ updates = <<>>
    /\ buffer = <<>>
    /\ last_valid_json = EmptyDict
    /\ events = <<>>
    /\ spc = "off"
    /\ incoming = <<>>
    /\ consumer = "draining"
    /\ response_text = <<>>
    /\ parsed = NotParsed

agentVars == <<pipeVars, streamVars, parseVars>>

\* File contents: a letter, carriage return, line feed.
ContentAlphabet == {"a", "CR", "LF"}
MaxContent == 2
Contents == SeqsUpTo(ContentAlphabet, MaxContent)
MaxEdit == 1
EditStrings == SeqsUpTo(ContentAlphabet, MaxEdit)

\* aiofiles.open(path, "w", encoding="utf-8") and f.write(content): text
\* mode on POSIX writes the characters as they are.
Written(content) == [exists |-> TRUE, raw |-> content]

\* aiofiles.open(path, "r", encoding="utf-8") and f.read(): text mode reads
\* with universal newlines, CR LF and CR become LF.
RECURSIVE ReadText(_)
ReadText(raw) ==
    IF raw = <<>> THEN <<>>
    ELSE IF Head(raw) = "CR"
         THEN IF Len(raw) >= 2 /\ raw[2] = "LF"
              THEN <<"LF">> \o ReadText(Tail(Tail(raw)))
              ELSE <<"LF">> \o ReadText(Tail(raw))
    ELSE <<Head(raw)>> \o ReadText(Tail(raw))

\* old_content in current
Contains(current, old_content) ==
    \E i \in 0..(Len(current) - Len(old_content)) :
        SubSeq(current, i + 1, i + Len(old_content)) = old_content

\* current.replace(old_content, new_content)
RECURSIVE Replace(_, _, _)
Replace(current, old_content, new_content) ==
    IF old_content = <<>>
    THEN IF current = <<>> THEN new_content
         ELSE new_content \o <<Head(current)>> \o Replace(Tail(current), old_content, new_content)
    ELSE IF Len(current) < Len(old_content) THEN current
    ELSE IF SubSeq(current, 1, Len(old_content)) = old_content
         THEN new_content \o Replace(SubSeq(current, Len(old_content) + 1, Len(current)),
                                     old_content, new_content)
    ELSE <<Head(current)>> \o Replace(Tail(current), old_content, new_content)

InitFile == AgentsIdle /\ StoreIdle /\ DiagIdle

write_file ==
    /\ pc = "off"
    /\ \E content \in Contents :
          /\ disk' = [disk EXCEPT !.file = Written(content)]
          /\ ret' = [op |-> "write_file", ok |-> TRUE]
          /\ ghost' = [ghost EXCEPT !.written = [exists |-> TRUE, raw |-> content]]
    /\ UNCHANGED coro
    /\ UNCHANGED <<agentVars, diagVars>>

read_file ==
    /\ pc = "off"
    /\ ret' = [op |-> "read_file", none |-> ~disk.file.exists,
               text |-> ReadText(disk.file.raw)]
    /\ UNCHANGED <<disk, ghost, coro>>
    /\ UNCHANGED <<agentVars, diagVars>>

delete_file ==
    /\ pc = "off"
    /\ IF ~disk.file.exists
       THEN /\ ret' = [op |-> "delete_file", ok |-> FALSE]
            /\ UNCHANGED <<disk, ghost>>
       ELSE /\ disk' = [disk EXCEPT !.file = NoFile]
            /\ ret' = [op |-> "delete_file", ok |-> TRUE]
            /\ ghost' = [ghost EXCEPT !.written = NoFile]
    /\ UNCHANGED coro
    /\ UNCHANGED <<agentVars, diagVars>>

file_exists ==
    /\ pc = "off"
    /\ ret' = [op |-> "file_exists", ok |-> disk.file.exists]
    /\ UNCHANGED <<disk, ghost, coro>>
    /\ UNCHANGED <<agentVars, diagVars>>

\* current = read_file(path); the two early returns; write_file(path, updated)
edit_file ==
    /\ pc = "off"
    /\ \E old_content, new_content \in EditStrings :
          LET current == ReadText(disk.file.raw)
              updated == Replace(current, old_content, new_content)
              call == [op |-> "edit_file", old |-> old_content, new |-> new_content,
                       before |-> disk.file]
          IN  IF ~disk.file.exists \/ ~Contains(current, old_content)
              THEN /\ ret' = call @@ [ok |-> FALSE]
                   /\ UNCHANGED <<disk, ghost>>
              ELSE /\ Len(updated) <= MaxContent
                   /\ disk' = [disk EXCEPT !.file = Written(updated)]
                   /\ ret' = call @@ [ok |-> TRUE]
                   /\ ghost' = [ghost EXCEPT !.written = [exists |-> TRUE, raw |-> updated]]
    /\ UNCHANGED coro
    /\ UNCHANGED <<agentVars, diagVars>>

NextFile ==
    \/ write_file
    \/ read_file
    \/ delete_file
    \/ file_exists
    \/ edit_file

SpecFile == InitFile /\ [][NextFile]_vars

-----------------------------------------------------------------------------
(* storage/file_backend.py: skill history of one user *)

MaxAppends == 3
Dates == {1, 2}
Levels == {0, 10}

\* storage/schemas.py SkillHistory, by its date and overall_level
SkillHistories == [date : Dates, overall_level : Levels]

\* h.model_dump(mode="json"): the date becomes its ISO string
model_dump(h) == [date |-> [iso |-> h.date], overall_level |-> h.overall_level]

\* SkillHistory.model_validate(item): the ISO string is parsed back
model_validate(item) == [date |-> item.date.iso, overall_level |-> item.overall_level]

\* json.dumps([h.model_dump(mode="json") for h in existing], ...)
Dumps(existing) ==
    [exists |-> TRUE, json |-> TRUE,
     items |-> [i \in 1..Len(existing) |-> model_dump(existing[i])]]

\* open(path, "w") before anything is written: an empty file
Truncated == [exists |-> TRUE, json |-> FALSE, items |-> <<>>]

\* get_skill_history on the file as it is
get_skill_history(file) ==
    IF ~file.exists THEN <<>>
    ELSE IF ~file.json THEN <<>>
    ELSE [i \in 1..Len(file.items) |-> model_validate(file.items[i])]

PrependedHistory(existing, history) == <<history>> \o existing

\* existing.append(history)
AppendedHistory(existing, history) == Append(existing, history)

\* A history file is absent, or holds a list written by the backend.
InitialHistories == {<<>>} \cup {<<h>> : h \in SkillHistories}

InitHistory ==
    /\ AgentsIdle
    /\ DiagIdle
    /\ ret = NoReturn
    /\ coro = <<>>
    /\ \E initial \in InitialHistories, present \in BOOLEAN :
          /\ present \/ initial = <<>>
          /\ disk = [file |-> NoFile,
                     history |-> IF present THEN Dumps(initial) ELSE NoHistoryFile]
          /\ ghost = [written |-> NoFile, initial |-> initial, appended |-> <<>>]

append_skill_history ==
    /\ pc = "off"
    /\ Len(ghost.appended) < MaxAppends
    /\ \E history \in SkillHistories :
          LET existing == AppendedHistory(get_skill_history(disk.history), history)
          IN  /\ disk' = [disk EXCEPT !.history = Dumps(existing)]
              /\ ret' = [op |-> "append_skill_history", ok |-> TRUE,
                         items |-> <<history>>]
              /\ ghost' = [ghost EXCEPT !.appended = Append(@, history)]
    /\ UNCHANGED coro
    /\ UNCHANGED <<agentVars, diagVars>>

GetSkillHistory ==
    /\ pc = "off"
    /\ ret' = [op |-> "get_skill_history", ok |-> TRUE,
               items |-> get_skill_history(disk.history)]
    /\ UNCHANGED <<disk, ghost, coro>>
    /\ UNCHANGED <<agentVars, diagVars>>

NextHistory ==
    \/ append_skill_history
    \/ GetSkillHistory

SpecHistory == InitHistory /\ [][NextHistory]_vars

-----------------------------------------------------------------------------
(* storage/file_backend.py: two append_skill_history calls on one event loop *)

\* The backend takes no lock: each awaited file operation of a call is a
\* point where the event loop may run the other call.
Callers == {1, 2}

InitAppend ==
    /\ AgentsIdle
    /\ DiagIdle
    /\ ret = NoReturn
    /\ \E initial \in InitialHistories, present \in BOOLEAN :
          /\ present \/ initial = <<>>
          /\ disk = [file |-> NoFile,
                     history |-> IF present THEN Dumps(initial) ELSE NoHistoryFile]
          /\ ghost = [written |-> NoFile, initial |-> initial, appended |-> <<>>]
    /\ \E first, second \in SkillHistories :
          coro = [c \in Callers |->
                    [pc |-> "called", existing |-> <<>>,
                     history |-> IF c = 1 THEN first ELSE second]]

\* existing = await self.get_skill_history(user_id); existing.append(history)
AppendReads(c) ==
    /\ pc = "off"
    /\ coro[c].pc = "called"
    /\ coro' = [coro EXCEPT ![c].pc = "read",
                            ![c].existing = AppendedHistory(get_skill_history(disk.history),
                                                            coro[c].history)]
    /\ ghost' = [ghost EXCEPT !.appended = Append(@, coro[c].history)]
    /\ UNCHANGED <<disk, ret>>
    /\ UNCHANGED <<agentVars, diagVars>>

\* write_file: async with aiofiles.open(actual_path, "w", ...) empties the file
AppendOpens(c) ==
    /\ pc = "off"
    /\ coro[c].pc = "read"
    /\ coro' = [coro EXCEPT ![c].pc = "opened"]
    /\ disk' = [disk EXCEPT !.history = Truncated]
    /\ UNCHANGED <<ret, ghost>>
    /\ UNCHANGED <<agentVars, diagVars>>

\* write_file: await f.write(content) and the close of the file.  The write
\* starts at offset 0: over a longer content written meanwhile through the
\* other handle it leaves that content's tail behind, which is no JSON.
AppendWrites(c) ==
    /\ pc = "off"
    /\ coro[c].pc = "opened"
    /\ coro' = [coro EXCEPT ![c].pc = "done"]
    /\ disk' = [disk EXCEPT !.history =
                    IF disk.history.json /\ Len(disk.history.items) > Len(coro[c].existing)
                    THEN Truncated
                    ELSE Dumps(coro[c].existing)]
    /\ ret' = [op |-> "append_skill_history", ok |-> TRUE,
               items |-> <<coro[c].history>>]
    /\ UNCHANGED ghost
    /\ UNCHANGED <<agentVars, diagVars>>

NextAppend ==
    \/ \E c \in Callers : AppendReads(c)
    \/ \E c \in Callers : AppendOpens(c)
    \/ \E c \in Callers : AppendWrites(c)

SpecAppend == InitAppend /\ [][NextAppend]_vars

-----------------------------------------------------------------------------
(* domain/entities/structured_diagnosis.py and use_cases/eng_career_diagnosis *)

\* StructuredDiagnosisPhase, in the order of its order property
PhaseOrder ==
    <<"DOMAIN_SELECTION", "GOAL_SELECTION", "COMMON_QUESTIONS", "DOMAIN_QUESTIONS",
      "ROADMAP_GENERATION", "COMPLETED">>
Phases == {PhaseOrder[i] : i \in DOMAIN PhaseOrder}
PhaseRank(phase) == CHOOSE i \in DOMAIN PhaseOrder : PhaseOrder[i] = phase

\* phase.value, as to_dict stores it
PhaseValue(phase) ==
    CASE phase = "DOMAIN_SELECTION" -> "domain_selection"
      [] phase = "GOAL_SELECTION" -> "goal_selection"
      [] phase = "COMMON_QUESTIONS" -> "common_questions"
      [] phase = "DOMAIN_QUESTIONS" -> "domain_questions"
      [] phase = "ROADMAP_GENERATION" -> "roadmap_generation"
      [] phase = "COMPLETED" -> "completed"

\* StructuredDiagnosisPhase(value), as from_dict reads it
StructuredDiagnosisPhase(value) == CHOOSE phase \in Phases : PhaseValue(phase) = value

\* StructuredDiagnosisSession.create()
NewSession ==
    [current_phase |-> "DOMAIN_SELECTION", selected_domain |-> None,
     selected_goal_id |-> None, common_answers |-> <<>>, domain_answers |-> <<>>,
     roadmap |-> None, is_completed |-> FALSE]

to_dict(session) == [session EXCEPT !.current_phase = PhaseValue(@)]
from_dict(data) == [data EXCEPT !.current_phase = StructuredDiagnosisPhase(@)]

\* FileStructuredDiagnosisRepository: one session file, "s1"
SessionIds == {"s1", "unknown"}
find_by_id(session_id) ==
    IF session_id = "s1" /\ stored.exists
    THEN [found |-> TRUE, session |-> from_dict(stored.data)]
    ELSE [found |-> FALSE, session |-> NewSession]
save(session) == [exists |-> TRUE, data |-> to_dict(session)]

\* domain/constants: the domains, the goals of each and the questions
Domains == {"frontend", "backend"}
RequestedDomains == Domains \cup {"mobile"}
get_goals_for_domain(domain) ==
    CASE domain = "frontend" -> {"fe_goal"}
      [] domain = "backend" -> {"be_goal"}
      [] OTHER -> {}
RequestedGoals == {"fe_goal", "be_goal", "no_goal"}
COMMON_QUESTIONS == {"c1"}
get_domain_questions(domain) ==
    CASE domain = "frontend" -> {"f1"}
      [] domain = "backend" -> {"b1"}
      [] OTHER -> {}
MaxAnswers == 1
MaxRecorded == 2
AnswerInputs == SeqsUpTo({"c1", "f1", "b1", "other"}, MaxAnswers)

\* question_answers: the answers whose question the lookup knows
QuestionAnswers(answers, question_lookup) ==
    SelectSeq(answers, LAMBDA question_id : question_id \in question_lookup)

\* The entity's methods
select_domain(session, domain) ==
    [session EXCEPT !.selected_domain = domain, !.current_phase = "GOAL_SELECTION"]
select_goal(session, goal_id) ==
    [session EXCEPT !.selected_goal_id = goal_id, !.current_phase = "COMMON_QUESTIONS"]
add_common_answers(session, answers) ==
    [session EXCEPT !.common_answers = @ \o answers]
complete_common_questions(session) ==
    [session EXCEPT !.current_phase = "DOMAIN_QUESTIONS"]
add_domain_answers(session, answers) ==
    [session EXCEPT !.domain_answers = @ \o answers]
complete_domain_questions(session) ==
    [session EXCEPT !.current_phase = "ROADMAP_GENERATION"]
set_roadmap(session, roadmap) ==
    [session EXCEPT !.roadmap = roadmap, !.current_phase = "COMPLETED",
                    !.is_completed = TRUE]

\* What generate_structured_roadmap can do: raise, or return a roadmap
RoadmapServiceOutcomes == {"raises", "roadmap"}

ProcessingAnyPhase(phase) ==
    IF phase = "COMMON_QUESTIONS" THEN "common" ELSE "domain"

\* SubmitAnswersUseCase.execute: the branch taken for the current phase
Processing(phase) ==
    CASE phase = "COMMON_QUESTIONS" -> "common"
      [] phase = "DOMAIN_QUESTIONS" -> "domain"
      [] OTHER -> "rejected"

Seen(file) == IF file.exists THEN PhaseRank(StructuredDiagnosisPhase(file.data.current_phase)) ELSE 0

\* StartEngCareerDiagnosisUseCase has created and saved the session.
InitDiagnosis ==
    /\ AgentsIdle
    /\ StoreIdle
    /\ stored = save(NewSession)
    /\ reply = NoReply
    /\ seen = Seen(save(NewSession))

Replies(op, session_id, raised, answers) ==
    [op |-> op, session_id |-> session_id, raised |-> raised, before |-> stored,
     recorded |-> answers]

Saves(session) ==
    /\ stored' = save(session)
    /\ seen' = IF Seen(save(session)) > seen THEN Seen(save(session)) ELSE seen

SelectDomain ==
    /\ pc = "off"
    /\ \E session_id \in SessionIds, domain \in RequestedDomains :
          LET lookup == find_by_id(session_id)
          IN  IF ~lookup.found \/ domain \notin Domains
              THEN /\ reply' = Replies("SelectDomain", session_id, "ValueError", <<>>)
                   /\ UNCHANGED <<stored, seen>>
              ELSE /\ Saves(select_domain(lookup.session, domain))
                   /\ reply' = Replies("SelectDomain", session_id, None, <<>>)
    /\ UNCHANGED <<agentVars, storeVars>>

SelectGoal ==
    /\ pc = "off"
    /\ \E session_id \in SessionIds, goal_id \in RequestedGoals :
          LET lookup == find_by_id(session_id)
          IN  IF \/ ~lookup.found
                 \/ lookup.session.selected_domain = None
                 \/ goal_id \notin get_goals_for_domain(lookup.session.selected_domain)
              THEN /\ reply' = Replies("SelectGoal", session_id, "ValueError", <<>>)
                   /\ UNCHANGED <<stored, seen>>
              ELSE /\ Saves(select_goal(lookup.session, goal_id))
                   /\ reply' = Replies("SelectGoal", session_id, None, <<>>)
    /\ UNCHANGED <<agentVars, storeVars>>

SubmitAnswers ==
    /\ pc = "off"
    /\ \E session_id \in SessionIds, answers \in AnswerInputs,
          outcome \in RoadmapServiceOutcomes :
          LET lookup == find_by_id(session_id)
              session == lookup.session
              branch == Processing(session.current_phase)
              common == QuestionAnswers(answers, COMMON_QUESTIONS)
              domain == QuestionAnswers(answers, get_domain_questions(session.selected_domain))
          IN  IF ~lookup.found \/ branch = "rejected"
              THEN /\ reply' = Replies("SubmitAnswers", session_id, "ValueError", <<>>)
                   /\ UNCHANGED <<stored, seen>>
              ELSE IF branch = "common"
              THEN /\ Len(session.common_answers) + Len(common) <= MaxRecorded
                   /\ Saves(complete_common_questions(add_common_answers(session, common)))
                   /\ reply' = Replies("SubmitAnswers", session_id, None, common)
              ELSE IF outcome = "raises"
              THEN /\ reply' = Replies("SubmitAnswers", session_id, "Exception", <<>>)
                   /\ UNCHANGED <<stored, seen>>
              ELSE /\ Len(session.domain_answers) + Len(domain) <= MaxRecorded
                   /\ Saves(set_roadmap(complete_domain_questions(
                                            add_domain_answers(session, domain)), outcome))
                   /\ reply' = Replies("SubmitAnswers", session_id, None, domain)
    /\ UNCHANGED <<agentVars, storeVars>>

NextDiagnosis ==
    \/ SelectDomain
    \/ SelectGoal
    \/ SubmitAnswers

SpecDiagnosis == InitDiagnosis /\ [][NextDiagnosis]_vars

-----------------------------------------------------------------------------
(* Properties of the research stage and of the graph *)

\* research_agent ran its fan-out and has returned; its lookups are still readable.
JoinedResearch == pc = "roadmap" /\ task # <<>>
Researchable ==
    state.tags # <<>> /\ settings.tavily_api_key /\ settings.client_ok
ResearchHasReturned == pc = "roadmap"

\* C1: for a non-empty tag list and a constructible search client the context
\* list research_agent returns has exactly len(tags) entries, whichever
\* lookups raised.
C1_ContextLength ==
    (ResearchHasReturned /\ Researchable) => Len(state.context) = Len(state.tags)

C1_Witness ==
    /\ JoinedResearch
    /\ \E i, j \in DOMAIN task : task[i] = "failed" /\ task[j] = "done"
    /\ Len(state.context) = 2

\* C2: whatever the completion order of the lookups, the i-th context entry
\* carries the name tags[i].
C2_TagOrder ==
    (ResearchHasReturned /\ Researchable) =>
        /\ DOMAIN state.context = DOMAIN state.tags
        /\ \A i \in DOMAIN state.context : state.context[i].name = state.tags[i]

C2_Witness ==
    /\ JoinedResearch
    /\ order = <<2, 1>>
    /\ task = <<"done", "done">>
    /\ state.tags[1] # state.tags[2]
    /\ state.context[1].name = state.tags[1]

\* C3: a lookup that raised leaves no stage error; its entry has no links and
\* a summary reporting the reason, and every other entry is exactly what its
\* own lookup returned.
C3_FailureIsolated ==
    JoinedResearch =>
        /\ state.error = None
        /\ \A i \in DOMAIN task :
              /\ task[i] = "failed" =>
                    /\ state.context[i].links = <<>>
                    /\ state.context[i].summary = <<"Research failed: ", slot[i].reason>>
              /\ task[i] = "done" => state.context[i] = slot[i].ctx

C3_Witness ==
    /\ JoinedResearch
    /\ task = <<"done", "failed">>
    /\ state.context[1].links # <<>>
    /\ state.context[2].links = <<>>

\* C4: the research stage returns only when no lookup is still pending, even
\* when an earlier lookup has already failed.
C4_JoinNotFailFast ==
    (rpc = "idle" /\ task # <<>>) =>
        \A i \in DOMAIN task : task[i] \in {"done", "failed"}

C4_Witness ==
    /\ JoinedResearch
    /\ Len(order) = 2
    /\ task[order[1]] = "failed"
    /\ task[order[2]] = "done"

\* C5: research_agent returns an error only for an empty tag list or a search
\* client that cannot be constructed; failing queries never make one.
C5_StageErrorOnlyPrecondition ==
    ResearchHasReturned => (state.error # None => ~Researchable)

C5_Witness ==
    /\ JoinedResearch
    /\ \A i \in DOMAIN task : task[i] = "failed"
    /\ state.error = None

StageOrder == <<"orchestrator", "research", "roadmap">>
Completed == pc = "END" /\ state.error = None /\ state.roadmap_json # EmptyDict
Failed == pc = "END" /\ state.error # None

\* C6: the nodes are entered in the order orchestrator, research, roadmap,
\* each at most once; a run that has not ended can always go on, and a run
\* that has ended is exactly one of Completed and Failed.
C6_LinearStages ==
    /\ Len(entered) <= Len(StageOrder)
    /\ entered = SubSeq(StageOrder, 1, Len(entered))
    /\ pc # "END" => ENABLED Next
    /\ pc = "END" => /\ entered = StageOrder
                     /\ Completed # Failed

C6_Witness == Completed /\ entered = StageOrder

\* C7: after the first node that returns an error (extraction, or a
\* precondition of research or synthesis) no external call is issued, the
\* final roadmap is empty and the final error is that first error.
C7_ShortCircuit ==
    failure.node # "none" =>
        /\ calls.llm = failure.llm
        /\ calls.search = failure.search
        /\ pc = "END" => /\ state.roadmap_json = EmptyDict
                         /\ state.error = failure.error

C7_Witness ==
    /\ pc = "END"
    /\ failure.node = "orchestrator"
    /\ failure.error = "Failed to extract tags from user input"
    /\ state.error = failure.error
    /\ entered = StageOrder

C7_WitnessResearch ==
    /\ pc = "END"
    /\ failure.node = "research"
    /\ state.error = "Tavily API key not configured"

\* C8: user_input never changes; the research node leaves tags and sub_tags
\* as they are, and the roadmap node leaves tags, sub_tags and context as
\* they are.
C8_Frame ==
    [][/\ state'.user_input = state.user_input
       /\ pc = "research" => /\ state'.tags = state.tags
                             /\ state'.sub_tags = state.sub_tags
       /\ pc = "roadmap" => /\ state'.tags = state.tags
                            /\ state'.sub_tags = state.sub_tags
                            /\ state'.context = state.context]_vars

C8_Witness ==
    /\ Completed
    /\ state.user_input # ""
    /\ state.tags # <<>>
    /\ state.sub_tags # <<>>
    /\ state.context # <<>>

-----------------------------------------------------------------------------
(* Properties of the streaming synthesizer *)

Terminals == {i \in 1..Len(events) : events[i].type \in {"complete", "error"}}

RECURSIVE Concat(_)
Concat(ss) == IF ss = <<>> THEN <<>> ELSE Head(ss) \o Concat(Tail(ss))

ChunkContents ==
    LET cs == SelectSeq(events, LAMBDA e : e.type = "chunk")
    IN  [i \in 1..Len(cs) |-> cs[i].content]

\* C9: a run of roadmap_agent_stream that reaches its end has yielded exactly
\* one terminal event (complete or error), as its last event; before the end
\* no terminal event has been yielded.
C9_OneTerminalLast ==
    /\ Terminals \subseteq {Len(events)}
    /\ spc = "done" <=> Terminals # {}

C9_Witness ==
    /\ spc = "done"
    /\ Len(events) >= 3
    /\ events[1].type = "chunk"
    /\ \E i \in 1..Len(events) : events[i].type = "progress"
    /\ events[Len(events)].error = "Roadmap agent error"

\* C10: a complete event is the last event of an ended run, carries
\* complete = true, and its roadmap is the three-tier parse of the
\* concatenation of all increments yielded as chunks, in arrival order.
C10_CompleteIsFinalParse ==
    \A i \in 1..Len(events) :
        events[i].type = "complete" =>
            /\ i = Len(events)
            /\ spc = "done"
            /\ events[i].complete
            /\ events[i].roadmap = _parse_roadmap_response(Concat(ChunkContents))
            /\ events[i].roadmap # EmptyDict
            /\ Concat(ChunkContents) = Concat(incoming)

C10_Witness ==
    /\ spc = "done"
    /\ events[Len(events)].type = "complete"
    /\ Len(incoming) >= 2
    /\ ThreeTier(buffer).tier = 1
    /\ \E i \in 1..Len(events) : events[i].type = "progress"

\* C11: roadmap_agent_stream ends with an error event (a) when the context is
\* empty: that error is then the only event and the Completion Service was
\* never invoked; (b) when the run has ended and the accumulated buffer does
\* not parse: the last event is the error and no complete event was yielded.
C11_ErrorEnds ==
    /\ state.context = <<>> =>
          /\ calls.llm = 0
          /\ incoming = <<>>
          /\ spc = "done" =>
                /\ Len(events) = 1
                /\ events[1].type = "error"
                /\ events[1].error \in {"No technology context available", state.error}
    /\ (spc = "done" /\ _parse_roadmap_response(Concat(incoming)) = EmptyDict) =>
          /\ events[Len(events)].type = "error"
          /\ \A i \in 1..Len(events) : events[i].type # "complete"

C11_Witness ==
    /\ spc = "done"
    /\ state.context = <<>>
    /\ events = <<ErrorEvent("No technology context available")>>

C11_WitnessUnparsable ==
    /\ spc = "done"
    /\ state.context # <<>>
    /\ Len(incoming) >= 2
    /\ _parse_roadmap_response(buffer) = EmptyDict
    /\ events[Len(events)].error = "Failed to parse roadmap JSON from response"
    /\ \E i \in 1..Len(events) : events[i].type = "progress"

ProgressEvents == SelectSeq(events, LAMBDA e : e.type = "progress")

\* The roadmap of the last progress event yielded so far; {} before the first.
LastSnapshot ==
    IF ProgressEvents = <<>> THEN EmptyDict
    ELSE ProgressEvents[Len(ProgressEvents)].roadmap

TechnologiesIn(roadmap) == Cardinality({i \in DOMAIN roadmap : roadmap[i] = "t"})

-----------------------------------------------------------------------------
(* Properties of the streaming pipeline *)

\* execute_streaming: the event yielded for one update of the workflow
RoadmapProgressEvent(event) ==
    [agent |-> event.agent,
     event_type |-> IF event.is_final THEN "complete" ELSE "progress",
     error |-> event.state.error,
     is_final |-> event.is_final]

ProgressStream == [i \in DOMAIN updates |-> RoadmapProgressEvent(updates[i])]

\* Nodes that have returned: those entered, less the one still running.
CompletedNodes ==
    IF rpc = "idle" THEN entered ELSE SubSeq(entered, 1, Len(entered) - 1)

-----------------------------------------------------------------------------
(* Properties of the consumer of the stream *)

-----------------------------------------------------------------------------
(* Properties of the tag extractor *)

\* C16: for an empty request text orchestrator_agent returns an empty tag
\* list with the precondition error, and the Completion Service is never
\* invoked.
C16_EmptyRequest ==
    state.user_input = "" =>
        /\ calls.llm = 0
        /\ updates # <<>> =>
              /\ updates[1].agent = "orchestrator"
              /\ updates[1].state.tags = <<>>
              /\ updates[1].state.error = "No user input provided"
              /\ state.tags = <<>>
              /\ state.error = "No user input provided"

C16_Witness ==
    /\ pc = "research"
    /\ state.user_input = ""
    /\ entered = <<"orchestrator">>
    /\ state.error = "No user input provided"
    /\ calls.llm = 0

-----------------------------------------------------------------------------
(* Properties of the response parsers *)

\* C17: both parsers return what the first successful tier read, the tiers
\* being the first fenced block, the whole response and the first top-level
\* {...} span (from the first "{" to the "}" that closes it), and report a
\* parse error only when all three fail.
C17_ThreeTiers ==
    parsed.by \in {"orchestrator_agent", "roadmap_agent"} =>
        LET s == response_text
            os == Positions(s, "{")
            a == Min(os)
            level(b) == Cardinality({k \in a..b : s[k] = "{"})
                            - Cardinality({k \in a..b : s[k] = "}"})
            closes == IF os = {} THEN {}
                      ELSE {b \in a..Len(s) : s[b] = "}" /\ level(b) = 0}
            fb == FencedBlock(s)
            t1 == JsonLoads(fb.group)
            t2 == JsonLoads(s)
            t3 == IF closes = {} THEN [ok |-> FALSE, value |-> EmptyDict]
                  ELSE JsonLoads(SubSeq(s, a, Min(closes)))
            stated == IF fb.found /\ t1.ok THEN t1
                      ELSE IF t2.ok THEN t2
                      ELSE IF t3.ok THEN t3
                      ELSE [ok |-> FALSE, value |-> EmptyDict]
        IN  /\ parsed.value = stated.value
            /\ (stated.ok /\ stated.value # EmptyDict /\ parsed.by = "roadmap_agent")
                   => parsed.error = None
            /\ (stated.ok /\ "t" \in TopMembers(stated.value) /\ parsed.given # <<>>
                   /\ parsed.by = "orchestrator_agent")
                   => parsed.error = None

\* C18: the tag list orchestrator_agent returns has no duplicates; it holds
\* the tags the Completion Service gave, each once, in the order of their
\* first occurrences.
C18_NoDuplicateTags ==
    (parsed.by = "orchestrator_agent" /\ parsed.error = None) =>
        LET First(seq, x) == Min({i \in DOMAIN seq : seq[i] = x})
        IN  /\ \A i, j \in DOMAIN parsed.tags :
                  parsed.tags[i] = parsed.tags[j] => i = j
            /\ {parsed.tags[i] : i \in DOMAIN parsed.tags}
                  = {parsed.given[i] : i \in DOMAIN parsed.given}
            /\ \A i, j \in DOMAIN parsed.tags :
                  i < j => First(parsed.given, parsed.tags[i])
                              < First(parsed.given, parsed.tags[j])

\* C19: when a tier parses the response but the tag list it carries is
\* empty, orchestrator_agent reports an error different from the one it
\* reports when no tier can parse the response.
C19_DistinctErrors ==
    LET unparsable == OrchestratorResult([raised |-> FALSE,
                                         resp |-> [text |-> <<>>, tags |-> <<>>]])
    IN  (parsed.by = "orchestrator_agent" /\ ThreeTier(response_text).ok
            /\ parsed.tags = <<>>)
            => /\ parsed.error # None
               /\ parsed.error # unparsable.error

\* What orchestrator_agent returned in this run, once it has returned.
OrchestratorUpdate == updates[1].state

\* C20: when the extraction succeeds, the sub-tags it returns are, for each
\* tag, exactly the keywords of the tag's keyword file whose relevance_level
\* is at least 4, each with its tag as technology; a tag without keywords
\* adds none and no error.
C20_SubTags ==
    (updates # <<>> /\ OrchestratorUpdate.error = None) =>
        LET tags == OrchestratorUpdate.tags
            sub_tags == OrchestratorUpdate.sub_tags
            Kept(tag) == {k \in DOMAIN KeywordFiles[tag] :
                             KeywordFiles[tag][k].relevance_level >= 4}
            Of(i) == {k \in DOMAIN sub_tags : sub_tags[k].technology = tags[i]}
            Occurrences(tag) == Cardinality({i \in DOMAIN tags : tags[i] = tag})
        IN  /\ \A k \in DOMAIN sub_tags :
                  /\ sub_tags[k].relevance_level >= 4
                  /\ \E i \in DOMAIN tags : sub_tags[k].technology = tags[i]
                  /\ \E f \in Kept(sub_tags[k].technology) :
                        /\ KeywordFiles[sub_tags[k].technology][f].word = sub_tags[k].word
                        /\ KeywordFiles[sub_tags[k].technology][f].relevance_level
                              = sub_tags[k].relevance_level
            /\ \A i \in DOMAIN tags :
                  /\ Cardinality(Of(i)) = Occurrences(tags[i]) * Cardinality(Kept(tags[i]))
                  /\ \A f \in Kept(tags[i]) :
                        \E k \in Of(i) : sub_tags[k].word = KeywordFiles[tags[i]][f].word
                  /\ KeywordFiles[tags[i]] = <<>> => Of(i) = {}

C20_Witness ==
    /\ pc = "research"
    /\ updates # <<>>
    /\ OrchestratorUpdate.error = None
    /\ OrchestratorUpdate.tags = <<"Vue", "React">>
    /\ Len(OrchestratorUpdate.sub_tags) = 2
    /\ state.error = None

-----------------------------------------------------------------------------
(* Properties of the streamed lines *)

\* The keys of the dict roadmap_agent_stream yields for an event.
EventKeys(event) ==
    CASE event.type = "chunk" -> {"type", "content"}
      [] event.type = "progress" -> {"type", "roadmap", "complete"}
      [] event.type = "complete" -> {"type", "roadmap", "complete"}
      [] event.type = "error" -> {"type", "error"}

\* POST /roadmap/stream: json.dumps(event) + "\n" for each event
RouterLines ==
    [i \in DOMAIN events |-> [type |-> events[i].type, keys |-> EventKeys(events[i])]]

\* GenerateRoadmapUseCase.stream_ndjson: {"type", "agent", "data"} per event
UseCaseLines ==
    [i \in DOMAIN ProgressStream |->
        [type |-> ProgressStream[i].event_type, keys |-> {"type", "agent", "data"}]]

\* C21: every streamed line is an object with at least the keys type, agent
\* and data, and its type is progress, complete or error.
C21_WireFormat ==
    \A lines \in {RouterLines, UseCaseLines} :
        \A i \in DOMAIN lines :
            /\ {"type", "agent", "data"} \subseteq lines[i].keys
            /\ lines[i].type \in {"progress", "complete", "error"}

-----------------------------------------------------------------------------
(* Properties of FileBackend *)

\* C24: read_file returns the content given to the most recent write_file,
\* or None when the path was never written or was deleted since; file_exists
\* is true exactly when read_file returns content.
C24_ReadLastWrite ==
    /\ disk.file.exists = ghost.written.exists
    /\ ret.op = "read_file" =>
          /\ ret.none = ~ghost.written.exists
          /\ ~ret.none => ret.text = ghost.written.raw
    /\ ret.op = "file_exists" => ret.ok = ghost.written.exists


\* C26: edit_file returns True exactly when the file exists and contains
\* old, and the file then holds the previous content with old replaced by
\* new; otherwise it returns False and the file is unchanged.
C26_EditReplaces ==
    ret.op = "edit_file" =>
        /\ ret.ok = (ret.before.exists /\ Contains(ret.before.raw, ret.old))
        /\ ret.ok => disk.file = [exists |-> TRUE,
                                  raw |-> Replace(ret.before.raw, ret.old, ret.new)]
        /\ ~ret.ok => disk.file = ret.before

\* The same on contents without carriage returns.
C26_PlainText ==
    (/\ ret.op = "edit_file"
     /\ \A text \in {ret.before.raw, ret.old, ret.new} :
           \A i \in DOMAIN text : text[i] # "CR") =>
        /\ ret.ok = (ret.before.exists /\ Contains(ret.before.raw, ret.old))
        /\ ret.ok => disk.file = [exists |-> TRUE,
                                  raw |-> Replace(ret.before.raw, ret.old, ret.new)]
        /\ ~ret.ok => disk.file = ret.before


\* C23: after sequential appends to the skill history of one user, starting
\* from no file or a valid one, get_skill_history returns the entries the
\* file started with followed by every appended entry once, in call order;
\* each append lengthens the history by one and keeps the earlier entries.
C23_AppendsInOrder ==
    /\ get_skill_history(disk.history) = ghost.initial \o ghost.appended
    /\ ret.op = "get_skill_history" => ret.items = ghost.initial \o ghost.appended
    /\ ret.op = "append_skill_history" =>
          LET now == get_skill_history(disk.history)
          IN  /\ Len(now) = Len(ghost.initial) + Len(ghost.appended)
              /\ now[Len(now)] = ret.items[1]
              /\ SubSeq(now, 1, Len(now) - 1) =
                    ghost.initial \o SubSeq(ghost.appended, 1, Len(ghost.appended) - 1)

C23_Witness ==
    /\ ret.op = "get_skill_history"
    /\ Len(ghost.initial) = 1
    /\ Len(ghost.appended) = 2
    /\ ghost.appended[1] # ghost.appended[2]
    /\ Len(ret.items) = 3


\* C30: when two append_skill_history calls for one user have both
\* returned, the stored history holds the entries it started with and both
\* appended entries.
C30_NoLostAppend ==
    (\A c \in Callers : coro[c].pc = "done") =>
        LET now == get_skill_history(disk.history)
        IN  /\ Len(now) = Len(ghost.initial) + 2
            /\ SubSeq(now, 1, Len(ghost.initial)) = ghost.initial
            /\ \A c \in Callers : \E i \in DOMAIN now : now[i] = coro[c].history


-----------------------------------------------------------------------------
(* Properties of _try_parse_partial_json *)

\* C25: _try_parse_partial_json returns the parse of the span from the
\* first "{" to the first position where the brace depth is back at zero
\* when that span parses, else the parse of the whole buffer, else of a
\* fenced block, else the empty object; and whenever the buffer holds a
\* complete top-level object, such an object is returned.
C25_CompleteObjectReturned ==
    parsed.by = "_try_parse_partial_json" =>
        LET text == response_text
            open(i) == Cardinality({k \in 1..i : text[k] = "{"})
            close(i) == Cardinality({k \in 1..i : text[k] = "}"})
            \* braces still open after position i, a "}" that closes nothing aside
            unclosed[i \in 0..Len(text)] ==
                IF i = 0 THEN 0
                ELSE IF text[i] = "{" THEN unclosed[i - 1] + 1
                ELSE IF text[i] = "}" /\ unclosed[i - 1] > 0 THEN unclosed[i - 1] - 1
                ELSE unclosed[i - 1]
            objects == {sp \in (1..Len(text)) \X (1..Len(text)) :
                           /\ text[sp[1]] = "{" /\ text[sp[2]] = "}"
                           /\ unclosed[sp[1] - 1] = 0
                           /\ JsonLoads(SubSeq(text, sp[1], sp[2])).ok}
            opens == Positions(text, "{")
            first == Min(opens)
            zeros == {i \in first..Len(text) :
                         open(i) - open(first - 1) = close(i) - close(first - 1)}
            span == IF opens = {} \/ zeros = {} THEN [ok |-> FALSE, value |-> EmptyDict]
                    ELSE JsonLoads(SubSeq(text, first, Min(zeros)))
            whole == JsonLoads(text)
            fo == FencedObject(text)
            fenced == JsonLoads(fo.group)
            stated == IF span.ok THEN span.value
                      ELSE IF whole.ok THEN whole.value
                      ELSE IF fo.found /\ fenced.ok THEN fenced.value
                      ELSE EmptyDict
        IN  /\ parsed.value = stated
            /\ objects # {} =>
                  \E sp \in objects :
                      parsed.value = JsonLoads(SubSeq(text, sp[1], sp[2])).value


-----------------------------------------------------------------------------
(* Properties of the events of execute_streaming *)

\* execute_streaming: the data of the event, by agent
EventData(event) ==
    CASE event.agent = "orchestrator" ->
            [tags |-> event.state.tags, error |-> event.state.error]
      [] event.agent = "research" ->
            [context |-> event.state.context, error |-> event.state.error]
      [] event.agent = "roadmap" ->
            [roadmap |-> event.state.roadmap_json, error |-> event.state.error]

\* execute_streaming runs the workflow for a request that is not empty
RequestAccepted(st) == st.user_input # ""

\* C28: in a run of execute_streaming a complete event carries a non-empty
\* roadmap and a null error, and no stage of its run has failed.
C28_CompleteMeansSuccess ==
    \A i \in DOMAIN updates :
        (RequestAccepted(state) /\ RoadmapProgressEvent(updates[i]).event_type = "complete") =>
            /\ EventData(updates[i]).roadmap # EmptyDict
            /\ EventData(updates[i]).error = None
            /\ \A k \in 1..i : EventData(updates[k]).error = None


-----------------------------------------------------------------------------
(* Properties of the structured diagnosis *)

\* C27: SubmitAnswers ends with ValueError and leaves the stored session as
\* it was when the session does not exist or its phase is neither
\* COMMON_QUESTIONS nor DOMAIN_QUESTIONS; it changes the stored session only
\* from those two phases, recording the answers and taking COMMON_QUESTIONS to
\* DOMAIN_QUESTIONS, and DOMAIN_QUESTIONS to COMPLETED with a roadmap.
C27_SubmitOnlyInQuestionPhases ==
    reply.op = "SubmitAnswers" =>
        LET before == reply.before
            exists == reply.session_id = "s1" /\ before.exists
            phase == before.data.current_phase
        IN  /\ (~exists \/ phase \notin {"common_questions", "domain_questions"}) =>
                  /\ reply.raised = "ValueError"
                  /\ stored = before
            /\ (exists /\ phase = "common_questions") =>
                  /\ reply.raised = None
                  /\ stored.data = [before.data EXCEPT
                                       !.current_phase = "domain_questions",
                                       !.common_answers = @ \o reply.recorded]
            /\ (exists /\ phase = "domain_questions") =>
                  \/ /\ reply.raised = None
                     /\ stored.data.roadmap # None
                     /\ stored.data = [before.data EXCEPT
                                          !.current_phase = "completed",
                                          !.domain_answers = @ \o reply.recorded,
                                          !.roadmap = stored.data.roadmap,
                                          !.is_completed = TRUE]
                  \/ /\ reply.raised = "Exception"
                     /\ stored = before

C27_Witness ==
    /\ reply.op = "SubmitAnswers"
    /\ reply.session_id = "s1"
    /\ reply.before.data.current_phase = "completed"
    /\ reply.raised = "ValueError"

C27_WitnessAdvanced ==
    /\ reply.op = "SubmitAnswers"
    /\ reply.raised = None
    /\ reply.before.data.current_phase = "domain_questions"
    /\ reply.recorded # <<>>
    /\ stored.data.current_phase = "completed"


\* C29: in every state reached by SelectDomain, SelectGoal and SubmitAnswers
\* calls, a session with is_completed true is in phase COMPLETED and has a
\* roadmap, and the session is in the furthest phase it has ever been in.
C29_CompletedStays ==
    stored.exists =>
        LET session == from_dict(stored.data)
        IN  /\ session.is_completed =>
                  /\ session.current_phase = "COMPLETED"
                  /\ session.roadmap # None
            /\ PhaseRank(session.current_phase) = seen

=============================================================================
